---------------------------- MODULE Spec2Model ----------------------------
(***************************************************************************)
(* Model of the birthday-cake scene: the entrance sequencer of             *)
(* AnimatedScene (its per-frame callback), the state App keeps (start,     *)
(* typed intro, candle, fireworks, focus) and the PictureFrame component   *)
(* (pointer handlers, cursor request, per-frame callback).                 *)
(*                                                                         *)
(* JavaScript numbers are modelled as exact rationals <<n, d>> with d > 0  *)
(* and gcd(n, d) = 1.  Angles are kept in units of 2*PI (one full turn).   *)
(* The render clock is sampled on a grid of ClockHz readings per second.   *)
(***************************************************************************)
EXTENDS Integers, Sequences, FiniteSets, TLC

(***************************************************************************)
(* Bounds of the model.                                                    *)
(***************************************************************************)
ClockHz == 10
MaxClock == 60
MaxStep == 13
MaxLog == 2
MaxFrameTicks == 3

(***************************************************************************)
(* Number arithmetic.  The operations are functions, so that their         *)
(* arguments are values when the body is evaluated.                        *)
(***************************************************************************)
Number == Int \X Int

Gcd[a \in Nat, b \in Nat] == IF b = 0 THEN a ELSE Gcd[b, a % b]

IntAbs(n) == IF n < 0 THEN -n ELSE n

R[n \in Int, d \in Int] ==
  LET sn == IF d < 0 THEN -n ELSE n
      sd == IF d < 0 THEN -d ELSE d
  IN  IF sn = 0 /\ sd # 0 THEN <<0, 1>>
      ELSE LET g == Gcd[IntAbs(sn), sd] IN <<sn \div g, sd \div g>>

Num(n) == <<n, 1>>

Add[a \in Number, b \in Number] ==
  IF a[2] = b[2] THEN R[a[1] + b[1], a[2]]
  ELSE LET g == Gcd[a[2], b[2]]
       IN  R[a[1] * (b[2] \div g) + b[1] * (a[2] \div g),
             (a[2] \div g) * b[2]]

Sub[a \in Number, b \in Number] ==
  IF a[2] = b[2] THEN R[a[1] - b[1], a[2]]
  ELSE LET g == Gcd[a[2], b[2]]
       IN  R[a[1] * (b[2] \div g) - b[1] * (a[2] \div g),
             (a[2] \div g) * b[2]]

Mul[a \in Number, b \in Number] ==
  IF a[1] = 0 \/ b[1] = 0 THEN <<0, 1>>
  ELSE LET x == R[a[1], b[2]]
           y == R[b[1], a[2]]
       IN  <<x[1] * y[1], x[2] * y[2]>>

Div[a \in Number, b \in Number] ==
  IF a[1] = 0 THEN <<0, 1>>
  ELSE LET x == R[a[1], b[1]]
           y == R[b[2], a[2]]
       IN  R[x[1] * y[1], x[2] * y[2]]

Leq[a \in Number, b \in Number] ==
  IF a[2] = b[2] THEN a[1] <= b[1] ELSE Sub[b, a][1] >= 0

Less[a \in Number, b \in Number] ==
  IF a[2] = b[2] THEN a[1] < b[1] ELSE Sub[b, a][1] > 0

MathMin[a \in Number, b \in Number] == IF Leq[a, b] THEN a ELSE b

MathMax[a \in Number, b \in Number] == IF Leq[a, b] THEN b ELSE a

MathAbs[a \in Number] == <<IntAbs(a[1]), a[2]>>

MathPow[b \in Number, e \in Nat] ==
  IF e = 0 THEN <<1, 1>> ELSE Mul[b, MathPow[b, e - 1]]

(***************************************************************************)
(* Tween utility.                                                          *)
(***************************************************************************)
clamp[value \in Number, min \in Number, max \in Number] ==
  MathMin[max, MathMax[min, value]]

lerp[from \in Number, to \in Number, t \in Number] ==
  Add[from, Mul[Sub[to, from], t]]

easeOutCubic[t \in Number] == Sub[Num(1), MathPow[Sub[Num(1), t], 3]]

(***************************************************************************)
(* Timing constants of the entrance sequence (seconds).                    *)
(***************************************************************************)
CAKE_START_Y == Num(10)
CAKE_END_Y == Num(0)
CAKE_DESCENT_DURATION == Num(3)

TABLE_START_Z == Num(30)
TABLE_END_Z == Num(0)
TABLE_SLIDE_DURATION == R[7, 10]
TABLE_SLIDE_START ==
  Sub[Sub[CAKE_DESCENT_DURATION, TABLE_SLIDE_DURATION], R[1, 10]]

CANDLE_START_Y == Num(5)
CANDLE_END_Y == Num(0)
CANDLE_DROP_DURATION == R[12, 10]

CandleDropStartAtTableStart == TABLE_SLIDE_START

CANDLE_DROP_START ==
  Add[MathMax[CAKE_DESCENT_DURATION,
              Add[TABLE_SLIDE_START, TABLE_SLIDE_DURATION]],
      Num(1)]

totalAnimationTime == Add[CANDLE_DROP_START, CANDLE_DROP_DURATION]

BACKGROUND_FADE_DURATION == Num(1)
BACKGROUND_FADE_OFFSET == Num(0)
BACKGROUND_FADE_END ==
  MathMax[Sub[CANDLE_DROP_START, BACKGROUND_FADE_OFFSET],
          BACKGROUND_FADE_DURATION]
BACKGROUND_FADE_START ==
  MathMax[Sub[BACKGROUND_FADE_END, BACKGROUND_FADE_DURATION], Num(0)]

EmitEpsilon == R[5, 1000]

Null == <<>>

Handles == {"cake", "table", "candle"}

VARIABLES
  playing,
  handles,
  now,
  resumed,
  seq,
  activeItemId,
  isHovered,
  toggleLog,
  app,
  frame

seqVars == <<playing, handles, now, resumed, seq>>

focusVars == <<activeItemId, isHovered, toggleLog>>

vars ==
  <<playing, handles, now, resumed, seq, activeItemId, isHovered, toggleLog,
    app, frame>>


(***************************************************************************)
(* seq holds the state of one mounted AnimatedScene: the poses of the      *)
(* three groups, the refs of the component, the values last delivered to   *)
(* the three callbacks, and what the last frame callback did.              *)
(***************************************************************************)
Pose(x, y, z, rx, ry, rz) ==
  [x |-> x, y |-> y, z |-> z, rx |-> rx, ry |-> ry, rz |-> rz]

Origin == Pose(Num(0), Num(0), Num(0), Num(0), Num(0), Num(0))

InitSeq ==
  [ cake |-> Origin,
    table |-> Origin,
    candle |-> [x |-> Num(0), y |-> Num(0), z |-> Num(0), visible |-> TRUE],
    animationStartRef |-> Null,
    hasPrimedRef |-> FALSE,
    hasCompletedRef |-> FALSE,
    completionNotifiedRef |-> FALSE,
    backgroundOpacityRef |-> Num(1),
    environmentProgressRef |-> Num(0),
    backgroundOpacity |-> Num(1),
    environmentProgress |-> Num(0),
    hasAnimationCompleted |-> FALSE,
    completeCalls |-> 0,
    primeCount |-> 0,
    lastTick |-> "none",
    lastElapsed |-> Null,
    computedOpacity |-> Null,
    computedProgress |-> Null ]

(***************************************************************************)
(* Gated emission of the two signals.                                      *)
(***************************************************************************)
emitBackgroundOpacityUngated(s, value) ==
  LET clamped == clamp[value, Num(0), Num(1)]
  IN  [s EXCEPT !.backgroundOpacityRef = clamped,
                !.backgroundOpacity = clamped]

emitBackgroundOpacity(s, value) ==
  LET clamped == clamp[value, Num(0), Num(1)]
  IN  IF Less[EmitEpsilon, MathAbs[Sub[clamped, s.backgroundOpacityRef]]]
      THEN [s EXCEPT !.backgroundOpacityRef = clamped,
                     !.backgroundOpacity = clamped]
      ELSE s

emitEnvironmentProgressCoarse(s, value) ==
  LET clamped == clamp[value, Num(0), Num(1)]
  IN  IF Less[R[5, 100], MathAbs[Sub[clamped, s.environmentProgressRef]]]
      THEN [s EXCEPT !.environmentProgressRef = clamped,
                     !.environmentProgress = clamped]
      ELSE s

emitEnvironmentProgress(s, value) ==
  LET clamped == clamp[value, Num(0), Num(1)]
  IN  IF Less[EmitEpsilon, MathAbs[Sub[clamped, s.environmentProgressRef]]]
      THEN [s EXCEPT !.environmentProgressRef = clamped,
                     !.environmentProgress = clamped]
      ELSE s

(***************************************************************************)
(* onAnimationComplete, as App passes it: latch hasAnimationCompleted.     *)
(***************************************************************************)
onAnimationComplete(s) ==
  [s EXCEPT !.hasAnimationCompleted = TRUE,
            !.completeCalls = s.completeCalls + 1]

NotifyAlways(s) ==
  onAnimationComplete([s EXCEPT !.completionNotifiedRef = TRUE])

NotifyOnce(s) ==
  IF ~s.completionNotifiedRef
  THEN onAnimationComplete([s EXCEPT !.completionNotifiedRef = TRUE])
  ELSE s

(***************************************************************************)
(* The branches of the frame callback, in the order of the code.           *)
(***************************************************************************)
PrimeEveryTick(s) ==
  [s EXCEPT !.cake = Pose(Num(0), CAKE_START_Y, Num(0), Num(0), Num(0), Num(0)),
            !.table = Pose(Num(0), Num(0), TABLE_START_Z, Num(0), Num(0), Num(0)),
            !.candle = [x |-> Num(0), y |-> CANDLE_START_Y, z |-> Num(0),
                        visible |-> FALSE],
            !.primeCount = s.primeCount + 1]

Prime(s) ==
  IF ~s.hasPrimedRef
  THEN [s EXCEPT
          !.cake = Pose(Num(0), CAKE_START_Y, Num(0), Num(0), Num(0), Num(0)),
          !.table = Pose(Num(0), Num(0), TABLE_START_Z, Num(0), Num(0), Num(0)),
          !.candle = [x |-> Num(0), y |-> CANDLE_START_Y, z |-> Num(0),
                      visible |-> FALSE],
          !.hasPrimedRef = TRUE,
          !.primeCount = s.primeCount + 1]
  ELSE s

NotPlayingKeepStart(s) ==
  LET a == emitBackgroundOpacity(s, Num(1))
      b == emitEnvironmentProgress(a, Num(0))
  IN  [b EXCEPT !.hasCompletedRef = FALSE,
                !.completionNotifiedRef = FALSE,
                !.lastTick = "notPlaying",
                !.lastElapsed = Null,
                !.computedOpacity = Null,
                !.computedProgress = Null]

NotPlaying(s) ==
  LET a == emitBackgroundOpacity(s, Num(1))
      b == emitEnvironmentProgress(a, Num(0))
  IN  [b EXCEPT !.animationStartRef = Null,
                !.hasCompletedRef = FALSE,
                !.completionNotifiedRef = FALSE,
                !.lastTick = "notPlaying",
                !.lastElapsed = Null,
                !.computedOpacity = Null,
                !.computedProgress = Null]

Completed(s) ==
  LET a == emitBackgroundOpacity(s, Num(0))
      b == emitEnvironmentProgress(a, Num(1))
      c == NotifyOnce(b)
  IN  [c EXCEPT !.lastTick = "completed", !.lastElapsed = Null,
                !.computedOpacity = Null, !.computedProgress = Null]

Arm(s, clockElapsedTime) ==
  IF s.animationStartRef = Null
  THEN [s EXCEPT !.animationStartRef = clockElapsedTime]
  ELSE s

CakePoseLinear(clampedElapsed) ==
  LET cakeProgress ==
        clamp[Div[clampedElapsed, CAKE_DESCENT_DURATION], Num(0), Num(1)]
  IN  Pose(Num(0), lerp[CAKE_START_Y, CAKE_END_Y, cakeProgress], Num(0),
           Num(0), cakeProgress, Num(0))

CakePose(clampedElapsed) ==
  LET cakeProgress ==
        clamp[Div[clampedElapsed, CAKE_DESCENT_DURATION], Num(0), Num(1)]
      cakeEase == easeOutCubic[cakeProgress]
  IN  Pose(Num(0), lerp[CAKE_START_Y, CAKE_END_Y, cakeEase], Num(0),
           Num(0), cakeEase, Num(0))

TablePoseLinear(clampedElapsed) ==
  LET tableProgress ==
        clamp[Div[Sub[clampedElapsed, TABLE_SLIDE_START], TABLE_SLIDE_DURATION],
              Num(0), Num(1)]
      tableZ == IF Leq[TABLE_SLIDE_START, clampedElapsed]
                THEN lerp[TABLE_START_Z, TABLE_END_Z, tableProgress]
                ELSE TABLE_START_Z
  IN  Pose(Num(0), Num(0), tableZ, Num(0), Num(0), Num(0))

TablePose(clampedElapsed) ==
  LET tableProgress ==
        clamp[Div[Sub[clampedElapsed, TABLE_SLIDE_START], TABLE_SLIDE_DURATION],
              Num(0), Num(1)]
      tableEase == easeOutCubic[tableProgress]
      tableZ == IF Leq[TABLE_SLIDE_START, clampedElapsed]
                THEN lerp[TABLE_START_Z, TABLE_END_Z, tableEase]
                ELSE TABLE_START_Z
  IN  Pose(Num(0), Num(0), tableZ, Num(0), Num(0), Num(0))

CandlePoseNoHide(candle, clampedElapsed) ==
  IF Leq[CANDLE_DROP_START, clampedElapsed]
  THEN LET candleProgress ==
             clamp[Div[Sub[clampedElapsed, CANDLE_DROP_START],
                       CANDLE_DROP_DURATION], Num(0), Num(1)]
           candleEase == easeOutCubic[candleProgress]
       IN  [candle EXCEPT !.visible = TRUE,
                          !.y = lerp[CANDLE_START_Y, CANDLE_END_Y, candleEase]]
  ELSE [candle EXCEPT !.x = Num(0), !.y = CANDLE_START_Y, !.z = Num(0)]

CandlePose(candle, clampedElapsed) ==
  IF Leq[CANDLE_DROP_START, clampedElapsed]
  THEN LET candleProgress ==
             clamp[Div[Sub[clampedElapsed, CANDLE_DROP_START],
                       CANDLE_DROP_DURATION], Num(0), Num(1)]
           candleEase == easeOutCubic[candleProgress]
       IN  [candle EXCEPT !.visible = TRUE,
                          !.y = lerp[CANDLE_START_Y, CANDLE_END_Y, candleEase]]
  ELSE [x |-> Num(0), y |-> CANDLE_START_Y, z |-> Num(0), visible |-> FALSE]

\* the two emitter calls of the fade, with the values passed kept in
\* computedOpacity and computedProgress
EmitFade(s, backgroundOpacity, environmentProgress) ==
  [emitEnvironmentProgress(emitBackgroundOpacity(s, backgroundOpacity),
                           environmentProgress)
     EXCEPT !.computedOpacity = backgroundOpacity,
            !.computedProgress = environmentProgress]

BackgroundFadeBounce(s, clampedElapsed) ==
  IF Less[clampedElapsed, BACKGROUND_FADE_START]
  THEN EmitFade(s, Num(1), Num(0))
  ELSE LET fadeProgress ==
             clamp[Div[Sub[clampedElapsed, BACKGROUND_FADE_START],
                       BACKGROUND_FADE_DURATION], Num(0), Num(1)]
           backgroundOpacity ==
             MathAbs[Sub[Num(1), Mul[Num(2), fadeProgress]]]
       IN  EmitFade(s, backgroundOpacity, Sub[Num(1), backgroundOpacity])

BackgroundFadeLinear(s, clampedElapsed) ==
  IF Less[clampedElapsed, BACKGROUND_FADE_START]
  THEN EmitFade(s, Num(1), Num(0))
  ELSE LET fadeProgress ==
             clamp[Div[Sub[clampedElapsed, BACKGROUND_FADE_START],
                       BACKGROUND_FADE_DURATION], Num(0), Num(1)]
           backgroundOpacity == Sub[Num(1), fadeProgress]
       IN  EmitFade(s, backgroundOpacity, Sub[Num(1), backgroundOpacity])

BackgroundFade(s, clampedElapsed) ==
  IF Less[clampedElapsed, BACKGROUND_FADE_START]
  THEN EmitFade(s, Num(1), Num(0))
  ELSE LET fadeProgress ==
             clamp[Div[Sub[clampedElapsed, BACKGROUND_FADE_START],
                       BACKGROUND_FADE_DURATION], Num(0), Num(1)]
           eased == easeOutCubic[fadeProgress]
           backgroundOpacity == Sub[Num(1), eased]
       IN  EmitFade(s, backgroundOpacity, Sub[Num(1), backgroundOpacity])

Snap(s) ==
  LET a == [s EXCEPT
              !.cake = Pose(Num(0), CAKE_END_Y, Num(0), Num(0), Num(0), Num(0)),
              !.table = [s.table EXCEPT !.x = Num(0), !.y = Num(0),
                                        !.z = TABLE_END_Z],
              !.candle = [x |-> Num(0), y |-> CANDLE_END_Y, z |-> Num(0),
                          visible |-> TRUE]]
      b == emitBackgroundOpacity(a, Num(0))
      c == emitEnvironmentProgress(b, Num(1))
  IN  NotifyOnce([c EXCEPT !.hasCompletedRef = TRUE])

AnimationDoneStrict(s, clampedElapsed) ==
  IF Less[totalAnimationTime, clampedElapsed] THEN Snap(s) ELSE s

AnimationDone(s, clampedElapsed) ==
  IF Leq[totalAnimationTime, clampedElapsed] THEN Snap(s) ELSE s

Animate(s, clockElapsedTime) ==
  LET a == Arm(s, clockElapsedTime)
      elapsed == Sub[clockElapsedTime, a.animationStartRef]
      clampedElapsed == clamp[elapsed, Num(0), totalAnimationTime]
      d == [a EXCEPT !.cake = CakePose(clampedElapsed),
                     !.table = TablePose(clampedElapsed),
                     !.candle = CandlePose(a.candle, clampedElapsed)]
      e == BackgroundFade(d, clampedElapsed)
      f == AnimationDone(e, clampedElapsed)
  IN  [f EXCEPT !.lastTick = "animate", !.lastElapsed = elapsed]

useFrameCakeOnly(s, clockElapsedTime, isPlaying, present) ==
  IF "cake" \notin present
  THEN s
  ELSE LET p == Prime(s)
       IN  IF ~isPlaying THEN NotPlaying(p)
           ELSE IF p.hasCompletedRef THEN Completed(p)
           ELSE Animate(p, clockElapsedTime)

useFrame(s, clockElapsedTime, isPlaying, present) ==
  IF present # Handles
  THEN s
  ELSE LET p == Prime(s)
       IN  IF ~isPlaying THEN NotPlaying(p)
           ELSE IF p.hasCompletedRef THEN Completed(p)
           ELSE Animate(p, clockElapsedTime)

(***************************************************************************)
(* Focus: the id App holds in activeItemId, and each picture frame's hover *)
(* flag.  toggleLog records the last MaxLog calls of handleItemToggle:     *)
(* the id passed and the focus target the call found.                      *)
(***************************************************************************)
null == "null"

PICTURE_FRAMES == {"frame1", "frame2", "frame3", "frame4"}

BIRTHDAY_CARDS == {"confetti"}

ItemIds == PICTURE_FRAMES \cup BIRTHDAY_CARDS

isActive(current, id) == current = id

handleItemToggleSetOnly(current, id) == id

handleItemToggle(current, id) == IF current = id THEN null ELSE id

isActiveEffectNone(hovered, before, after) == hovered

\* useEffect on isActive: a frame whose isActive changed to false drops hover
isActiveEffect(hovered, before, after) ==
  [f \in PICTURE_FRAMES |->
     IF isActive(before, f) # isActive(after, f) /\ ~isActive(after, f)
     THEN FALSE
     ELSE hovered[f]]

Record(log, entry) ==
  IF Len(log) < MaxLog THEN Append(log, entry) ELSE Append(Tail(log), entry)

(***************************************************************************)
(* App: the state it keeps besides the focus, the typed intro and the      *)
(* handlers of the activation inputs.  TYPED_LINES holds the length of     *)
(* each line, which is all the code reads of the text.  playCalls counts   *)
(* the calls of playBackgroundMusic; lastInput names the last activation   *)
(* input or cake click received since the entrance completed.              *)
(***************************************************************************)
TYPED_LINES == <<9, 3, 33, 3, 41, 3, 34, 3, 23>>

KeyCodes == {"Space", "Enter"}

InitApp ==
  [ hasStarted |-> FALSE,
    currentLineIndex |-> 0,
    currentCharIndex |-> 0,
    sceneStarted |-> FALSE,
    isCandleLit |-> TRUE,
    fireworksActive |-> FALSE,
    playCalls |-> 0,
    lastInput |-> "none" ]

typingComplete(a) == a.currentLineIndex >= Len(TYPED_LINES)

isScenePlaying(a) == a.hasStarted /\ a.sceneStarted

playBackgroundMusic(a) == [a EXCEPT !.playCalls = a.playCalls + 1]

\* the body shared by handleKeyDown (after the key test) and
\* handleTouchOrClick
Received(a, completed, input) ==
  IF a.hasStarted /\ completed THEN [a EXCEPT !.lastInput = input] ELSE a

ActivateToggles(a, completed) ==
  IF ~a.hasStarted
  THEN [playBackgroundMusic(a) EXCEPT !.hasStarted = TRUE]
  ELSE IF completed
       THEN [a EXCEPT !.isCandleLit = ~a.isCandleLit,
                      !.fireworksActive = a.isCandleLit]
       ELSE a

ActivateAnyTime(a, completed) ==
  IF ~a.hasStarted
  THEN [playBackgroundMusic(a) EXCEPT !.hasStarted = TRUE]
  ELSE IF a.isCandleLit
       THEN [a EXCEPT !.isCandleLit = FALSE, !.fireworksActive = TRUE]
       ELSE a

Activate(a, completed) ==
  IF ~a.hasStarted
  THEN [playBackgroundMusic(a) EXCEPT !.hasStarted = TRUE]
  ELSE IF completed /\ a.isCandleLit
       THEN [a EXCEPT !.isCandleLit = FALSE, !.fireworksActive = TRUE]
       ELSE a

CakeClickRestarts(a, completed) ==
  IF completed /\ ~a.isCandleLit
  THEN [a EXCEPT !.isCandleLit = TRUE, !.fireworksActive = FALSE,
                 !.sceneStarted = FALSE]
  ELSE a

CakeClickKeepFireworks(a, completed) ==
  IF completed /\ ~a.isCandleLit
  THEN [a EXCEPT !.isCandleLit = TRUE]
  ELSE a

CakeClick(a, completed) ==
  IF completed /\ ~a.isCandleLit
  THEN [a EXCEPT !.isCandleLit = TRUE, !.fireworksActive = FALSE]
  ELSE a

\* the callback of the typing timer: one more character, or the next
\* line that is not empty
RECURSIVE SkipEmpty(_)
SkipEmpty(nextLineIndex) ==
  IF nextLineIndex < Len(TYPED_LINES) /\ TYPED_LINES[nextLineIndex + 1] = 0
  THEN SkipEmpty(nextLineIndex + 1)
  ELSE nextLineIndex

TypingStepSameLine(a) ==
  IF a.currentCharIndex < TYPED_LINES[a.currentLineIndex + 1]
  THEN [a EXCEPT !.currentCharIndex = a.currentCharIndex + 1]
  ELSE [a EXCEPT !.currentCharIndex = 0]

TypingStep(a) ==
  IF a.currentCharIndex < TYPED_LINES[a.currentLineIndex + 1]
  THEN [a EXCEPT !.currentCharIndex = a.currentCharIndex + 1]
  ELSE [a EXCEPT !.currentLineIndex = SkipEmpty(a.currentLineIndex + 1),
                 !.currentCharIndex = 0]

(***************************************************************************)
(* PictureFrame: one component with its props id (absent, empty or a       *)
(* string), onToggle (absent or present) and isActive, its isHovered       *)
(* state and the height y of its group.  ticks counts the runs of its      *)
(* frame callback and lastEvent names the last pointer event on its mesh.  *)
(***************************************************************************)
CAMERA_Y_FLOOR == R[8, 10]

HOVER_LIFT == R[4, 100]

\* the height of tablePosition (PICTURE_FRAMES) that the layout effect copies
DefaultY == R[735, 1000]

FrameIdProps == {null, "", "frame1"}

\* heights of camera.position + direction * CAMERA_DISTANCE + cameraOffset
CameraTargetYs == {R[1, 2], R[8, 5]}

\* values of 1 - Math.exp(-delta * 12)
LerpAlphas == {Num(0), R[1, 2], Num(1)}

InitFrame(id, onToggle) ==
  [ id |-> id,
    onToggle |-> onToggle,
    isActive |-> FALSE,
    isHovered |-> FALSE,
    y |-> DefaultY,
    ticks |-> 0,
    lastEvent |-> "none" ]

\* !id: absent or the empty string
Missing(id) == id = null \/ id = ""

isInteractive(fr) == ~Missing(fr.id) /\ fr.onToggle

useCursor(fr) ==
  (fr.isHovered \/ fr.isActive) /\ ~Missing(fr.id) /\ fr.onToggle

onPointerOver(fr) ==
  IF ~isInteractive(fr) THEN fr
  ELSE IF Missing(fr.id) \/ ~fr.onToggle THEN fr
  ELSE IF ~fr.isActive THEN [fr EXCEPT !.isHovered = TRUE]
  ELSE fr

onPointerOut(fr) ==
  IF ~isInteractive(fr) THEN fr
  ELSE IF Missing(fr.id) \/ ~fr.onToggle THEN fr
  ELSE [fr EXCEPT !.isHovered = FALSE]

onPointerDown(fr) == fr

\* the focus target after a click on the mesh: onToggle(id) is App's
\* handleItemToggle
onClick(fr, current) ==
  IF ~isInteractive(fr) THEN current
  ELSE IF Missing(fr.id) \/ ~fr.onToggle THEN current
  ELSE handleItemToggle(current, fr.id)

PictureFrameTarget(fr, cameraY) ==
  IF fr.isActive
  THEN IF Less[cameraY, CAMERA_Y_FLOOR] THEN CAMERA_Y_FLOOR ELSE cameraY
  ELSE IF fr.isHovered THEN Add[DefaultY, HOVER_LIFT] ELSE DefaultY

PictureFrameUseFrameNoGuard(fr, cameraY, lerpAlpha) ==
  [fr EXCEPT !.y = lerp[fr.y, PictureFrameTarget(fr, cameraY), lerpAlpha],
             !.ticks = fr.ticks + 1]

PictureFrameUseFrame(fr, cameraY, lerpAlpha) ==
  IF Missing(fr.id) \/ ~fr.onToggle
  THEN [fr EXCEPT !.ticks = fr.ticks + 1]
  ELSE [fr EXCEPT !.y = lerp[fr.y, PictureFrameTarget(fr, cameraY), lerpAlpha],
                  !.ticks = fr.ticks + 1]

\* a new isActive prop, and the effect on isActive
SetIsActiveProp(fr, b) ==
  IF ~b
  THEN [fr EXCEPT !.isActive = b, !.isHovered = FALSE]
  ELSE [fr EXCEPT !.isActive = b]

(***************************************************************************)
(* Initial state, and the actions of the sequencer: a handle is attached,  *)
(* App changes isPlaying, the render loop runs the frame callback.         *)
(***************************************************************************)
Init ==
  /\ playing = FALSE
  /\ handles = {}
  /\ now = 0
  /\ resumed = FALSE
  /\ seq = InitSeq
  /\ activeItemId = null
  /\ isHovered = [f \in PICTURE_FRAMES |-> FALSE]
  /\ toggleLog = <<>>
  /\ app = InitApp
  /\ frame = InitFrame("frame1", TRUE)

Mount(h) ==
  /\ h \notin handles
  /\ handles' = handles \cup {h}
  /\ UNCHANGED <<playing, now, resumed, seq>>
  /\ UNCHANGED focusVars
  /\ UNCHANGED frame
  /\ UNCHANGED app

SetPlaying(b) ==
  /\ b # playing
  /\ playing' = b
  /\ resumed' = b
  /\ UNCHANGED <<handles, now, seq>>
  /\ UNCHANGED focusVars
  /\ UNCHANGED frame
  /\ UNCHANGED app

TickStopsPlaying(dt) ==
  /\ now + dt <= MaxClock
  /\ now' = now + dt
  /\ seq' = useFrame(seq, R[now', ClockHz], playing, handles)
  /\ resumed' = IF handles = Handles THEN FALSE ELSE resumed
  /\ playing' = (playing /\ ~seq'.hasCompletedRef)
  /\ UNCHANGED handles
  /\ UNCHANGED focusVars
  /\ UNCHANGED frame
  /\ UNCHANGED app

Tick(dt) ==
  /\ now + dt <= MaxClock
  /\ now' = now + dt
  /\ seq' = useFrame(seq, R[now', ClockHz], playing, handles)
  /\ resumed' = IF handles = Handles THEN FALSE ELSE resumed
  /\ UNCHANGED <<playing, handles>>
  /\ UNCHANGED focusVars
  /\ UNCHANGED frame
  /\ UNCHANGED app

Next ==
  \/ \E h \in Handles : Mount(h)
  \/ \E b \in BOOLEAN : SetPlaying(b)
  \/ \E dt \in 0..MaxStep : Tick(dt)

Spec == Init /\ [][Next]_vars

(***************************************************************************)
(* Actions of the focus toggle and of the picture frames' pointer handlers.*)
(***************************************************************************)
ToggleItem(id) ==
  /\ activeItemId' = handleItemToggle(activeItemId, id)
  /\ isHovered' = isActiveEffect(isHovered, activeItemId, activeItemId')
  /\ toggleLog' = Record(toggleLog, [id |-> id, before |-> activeItemId])
  /\ UNCHANGED seqVars
  /\ UNCHANGED frame
  /\ UNCHANGED app

handlePointerOver(f) ==
  /\ isHovered' = IF ~isActive(activeItemId, f)
                  THEN [isHovered EXCEPT ![f] = TRUE]
                  ELSE isHovered
  /\ UNCHANGED <<activeItemId, toggleLog>>
  /\ UNCHANGED seqVars
  /\ UNCHANGED frame
  /\ UNCHANGED app

handlePointerOut(f) ==
  /\ isHovered' = [isHovered EXCEPT ![f] = FALSE]
  /\ UNCHANGED <<activeItemId, toggleLog>>
  /\ UNCHANGED seqVars
  /\ UNCHANGED frame
  /\ UNCHANGED app

NextFocus ==
  \/ \E id \in ItemIds : ToggleItem(id)
  \/ \E f \in PICTURE_FRAMES : handlePointerOver(f)
  \/ \E f \in PICTURE_FRAMES : handlePointerOut(f)

SpecFocus == Init /\ [][NextFocus]_vars

(***************************************************************************)
(* One PictureFrame constructed with any props: the pointer events on its  *)
(* mesh, a change of its isActive prop and the runs of its frame callback. *)
(***************************************************************************)
InitPictureFrame ==
  /\ playing = FALSE
  /\ handles = {}
  /\ now = 0
  /\ resumed = FALSE
  /\ seq = InitSeq
  /\ activeItemId = null
  /\ isHovered = [f \in PICTURE_FRAMES |-> FALSE]
  /\ toggleLog = <<>>
  /\ app = InitApp
  /\ \E id \in FrameIdProps, onToggle \in BOOLEAN :
       frame = InitFrame(id, onToggle)

FrameRest ==
  /\ UNCHANGED seqVars
  /\ UNCHANGED <<isHovered, toggleLog, app>>

PointerOver ==
  /\ frame' = [onPointerOver(frame) EXCEPT !.lastEvent = "over"]
  /\ UNCHANGED activeItemId
  /\ FrameRest

PointerOut ==
  /\ frame' = [onPointerOut(frame) EXCEPT !.lastEvent = "out"]
  /\ UNCHANGED activeItemId
  /\ FrameRest

PointerDown ==
  /\ frame' = [onPointerDown(frame) EXCEPT !.lastEvent = "down"]
  /\ UNCHANGED activeItemId
  /\ FrameRest

Click ==
  /\ frame' = [frame EXCEPT !.lastEvent = "click"]
  /\ activeItemId' = onClick(frame, activeItemId)
  /\ FrameRest

SetIsActive(b) ==
  /\ b # frame.isActive
  /\ frame' = SetIsActiveProp(frame, b)
  /\ UNCHANGED activeItemId
  /\ FrameRest

FrameTick(cameraY, lerpAlpha) ==
  /\ frame.ticks < MaxFrameTicks
  /\ frame' = PictureFrameUseFrame(frame, cameraY, lerpAlpha)
  /\ UNCHANGED activeItemId
  /\ FrameRest

NextPictureFrame ==
  \/ PointerOver
  \/ PointerOut
  \/ PointerDown
  \/ Click
  \/ \E b \in BOOLEAN : SetIsActive(b)
  \/ \E cameraY \in CameraTargetYs, lerpAlpha \in LerpAlphas :
       FrameTick(cameraY, lerpAlpha)

SpecPictureFrame == InitPictureFrame /\ [][NextPictureFrame]_vars

(***************************************************************************)
(* Actions of App around one mounted AnimatedScene: isPlaying is           *)
(* isScenePlaying, the activation inputs and the two timers of the intro   *)
(* effect change App's state, and the render loop runs the frame callback. *)
(***************************************************************************)
SetApp(a) ==
  /\ app' = a
  /\ playing' = isScenePlaying(a)
  /\ resumed' = IF isScenePlaying(a) /\ ~playing THEN TRUE ELSE resumed

ResetEffectUnguarded ==
  /\ SetApp([app EXCEPT !.currentLineIndex = 0,
                        !.currentCharIndex = 0,
                        !.sceneStarted = FALSE,
                        !.isCandleLit = TRUE,
                        !.fireworksActive = FALSE])
  /\ seq' = [seq EXCEPT !.hasAnimationCompleted = FALSE]
  /\ UNCHANGED <<handles, now>>
  /\ UNCHANGED focusVars
  /\ UNCHANGED frame

\* the branch of the intro effect that runs while hasStarted is false
ResetEffect ==
  /\ ~app.hasStarted
  /\ SetApp([app EXCEPT !.currentLineIndex = 0,
                        !.currentCharIndex = 0,
                        !.sceneStarted = FALSE,
                        !.isCandleLit = TRUE,
                        !.fireworksActive = FALSE])
  /\ seq' = [seq EXCEPT !.hasAnimationCompleted = FALSE]
  /\ UNCHANGED <<handles, now>>
  /\ UNCHANGED focusVars
  /\ UNCHANGED frame

SceneTimeoutEarly ==
  /\ app.hasStarted
  /\ ~app.sceneStarted
  /\ SetApp([app EXCEPT !.sceneStarted = TRUE])
  /\ UNCHANGED <<handles, now, seq>>
  /\ UNCHANGED focusVars
  /\ UNCHANGED frame

TypingTimeout ==
  /\ app.hasStarted
  /\ ~typingComplete(app)
  /\ SetApp(TypingStep(app))
  /\ UNCHANGED <<handles, now, seq>>
  /\ UNCHANGED focusVars
  /\ UNCHANGED frame

SceneTimeout ==
  /\ app.hasStarted
  /\ typingComplete(app)
  /\ ~app.sceneStarted
  /\ SetApp([app EXCEPT !.sceneStarted = TRUE])
  /\ UNCHANGED <<handles, now, seq>>
  /\ UNCHANGED focusVars
  /\ UNCHANGED frame

handleKeyDown(code) ==
  /\ SetApp(IF code # "Space"
            THEN app
            ELSE Received(Activate(app, seq.hasAnimationCompleted),
                          seq.hasAnimationCompleted, "keydown"))
  /\ UNCHANGED <<handles, now, seq>>
  /\ UNCHANGED focusVars
  /\ UNCHANGED frame

handleTouchOrClick ==
  /\ SetApp(Received(Activate(app, seq.hasAnimationCompleted),
                     seq.hasAnimationCompleted, "click"))
  /\ UNCHANGED <<handles, now, seq>>
  /\ UNCHANGED focusVars
  /\ UNCHANGED frame

handleCakeClick ==
  /\ SetApp(Received(CakeClick(app, seq.hasAnimationCompleted),
                     seq.hasAnimationCompleted, "cakeClick"))
  /\ UNCHANGED <<handles, now, seq>>
  /\ UNCHANGED focusVars
  /\ UNCHANGED frame

NextApp ==
  \/ ResetEffect
  \/ TypingTimeout
  \/ SceneTimeout
  \/ \E code \in KeyCodes : handleKeyDown(code)
  \/ handleTouchOrClick
  \/ handleCakeClick
  \/ \E h \in Handles : Mount(h)
  \/ \E dt \in 0..MaxStep : Tick(dt)

SpecApp == Init /\ [][NextApp]_vars

(***************************************************************************)
(* App under the scheduling the browser and the render loop give it: a     *)
(* timer the intro effect has set fires, the scene's handles get attached  *)
(* and the frame callback keeps running with an advancing clock.  The      *)
(* sequencer reads the clock only as the time since it armed the           *)
(* animation, so the readings up to MaxClock are split: the last           *)
(* SessionClock of them are kept for the armed animation.                  *)
(***************************************************************************)
\* the number of clock readings that totalAnimationTime spans
SessionClock ==
  CHOOSE n \in 0..MaxClock :
    /\ Leq[totalAnimationTime, R[n, ClockHz]]
    /\ \A m \in 0..(n - 1) : Less[R[m, ClockHz], totalAnimationTime]

ClockTick(dt) ==
  /\ seq.animationStartRef = Null => now + dt + SessionClock <= MaxClock
  /\ Tick(dt)

NextEntrance ==
  \/ ResetEffect
  \/ TypingTimeout
  \/ SceneTimeout
  \/ \E code \in KeyCodes : handleKeyDown(code)
  \/ handleTouchOrClick
  \/ handleCakeClick
  \/ \E h \in Handles : Mount(h)
  \/ \E dt \in 0..MaxStep : ClockTick(dt)

SpecEntrance ==
  /\ Init
  /\ [][NextEntrance]_vars
  /\ WF_vars(TypingTimeout)
  /\ WF_vars(SceneTimeout)
  /\ WF_vars(\E h \in Handles : Mount(h))
  /\ WF_vars(\E dt \in 0..MaxStep : ClockTick(dt))


(***************************************************************************)
(* Properties of the entrance sequencer (checked under Spec).              *)
(***************************************************************************)
TerminalPoses ==
  /\ seq.cake = Pose(Num(0), CAKE_END_Y, Num(0), Num(0), Num(0), Num(0))
  /\ seq.table.z = TABLE_END_Z
  /\ seq.candle.y = CANDLE_END_Y
  /\ seq.candle.visible

\* C1: while playing stays true, completed never goes back to false, and the
\* completion callback is invoked on the step that sets completed and on no
\* other step, hence exactly once however many ticks follow.
C1_MonotonicCompletion ==
  /\ [](seq.hasCompletedRef => seq.completionNotifiedRef)
  /\ [][(playing /\ playing') =>
          /\ (seq.hasCompletedRef => seq'.hasCompletedRef)
          /\ seq'.completeCalls =
               seq.completeCalls +
               (IF ~seq.hasCompletedRef /\ seq'.hasCompletedRef THEN 1 ELSE 0)
       ]_vars

C1_Witness ==
  /\ playing
  /\ seq.lastTick = "completed"
  /\ seq.hasCompletedRef
  /\ seq.completeCalls = 1

\* C2 as stated: the first tick with all handles present after playing went
\* from false to true computes elapsed = 0 and puts the cake at CAKE_START_Y.
C2_ResumeAlwaysRestarts ==
  [][(resumed /\ ~resumed' /\ playing') =>
       /\ seq'.lastTick = "animate"
       /\ seq'.lastElapsed = Num(0)
       /\ seq'.cake.y = CAKE_START_Y
    ]_vars

\* C2 amended: once a tick has run with playing false (all handles present),
\* start time, completed and completionNotified are cleared, and the next
\* tick that runs with playing true computes elapsed = 0 and puts the cake
\* at CAKE_START_Y.
C2_PausedTickResets ==
  /\ [](seq.lastTick = "notPlaying" =>
          /\ seq.animationStartRef = Null
          /\ ~seq.hasCompletedRef
          /\ ~seq.completionNotifiedRef)
  /\ [][(seq.lastTick = "notPlaying" /\ seq'.lastTick # "notPlaying") =>
          /\ seq'.lastTick = "animate"
          /\ seq'.lastElapsed = Num(0)
          /\ seq'.cake.y = CAKE_START_Y
       ]_vars

C2_Witness ==
  /\ seq.lastTick = "animate"
  /\ seq.lastElapsed = Num(0)
  /\ seq.completeCalls = 1
  /\ seq.cake.y = CAKE_START_Y
  /\ now > 0

\* C4: a tick whose elapsed time is at least totalAnimationTime leaves the
\* terminal poses, sets completed and has fired the completion callback;
\* whenever completed is set the poses are the terminal ones.
C4_TerminalSnap ==
  /\ (seq.lastTick = "animate" /\ Leq[totalAnimationTime, seq.lastElapsed]) =>
       /\ TerminalPoses
       /\ seq.hasCompletedRef
       /\ seq.completionNotifiedRef
       /\ seq.hasAnimationCompleted
  /\ seq.hasCompletedRef => TerminalPoses
  /\ totalAnimationTime = R[52, 10]

C4_Witness ==
  /\ seq.lastTick = "animate"
  /\ seq.lastElapsed = totalAnimationTime
  /\ seq.hasCompletedRef
  /\ TerminalPoses

\* C5 as stated: once completed, while playing, the opacity last delivered is
\* exactly 0 and the progress last delivered is exactly 1.
C5_TerminalSignalsExact ==
  (playing /\ seq.hasCompletedRef /\ seq.lastTick \in {"animate", "completed"}) =>
    /\ seq.backgroundOpacity = Num(0)
    /\ seq.environmentProgress = Num(1)

\* C6: the last emitted progress is 1 minus the last emitted opacity to within
\* the emission epsilon, in every reachable state.
C6_Complementary ==
  /\ Leq[MathAbs[Sub[seq.environmentProgress,
                     Sub[Num(1), seq.backgroundOpacity]]], EmitEpsilon]
  /\ seq.backgroundOpacity = seq.backgroundOpacityRef
  /\ seq.environmentProgress = seq.environmentProgressRef

C6_Witness ==
  /\ seq.hasCompletedRef
  /\ seq.backgroundOpacity = R[1, 1000]
  /\ seq.environmentProgress = R[999, 1000]

\* C7: on a tick whose elapsed time is below CANDLE_DROP_START the candle is
\* hidden and at CANDLE_START_Y, and CANDLE_DROP_START is not before the end
\* of the cake descent nor before the end of the table slide.
C7_CandleOrdering ==
  /\ (seq.hasPrimedRef /\ seq.lastTick = "animate"
        /\ Less[seq.lastElapsed, CANDLE_DROP_START]) =>
       (~seq.candle.visible /\ seq.candle.y = CANDLE_START_Y)
  /\ Leq[CAKE_DESCENT_DURATION, CANDLE_DROP_START]
  /\ Leq[Add[TABLE_SLIDE_START, TABLE_SLIDE_DURATION], CANDLE_DROP_START]

C7_Witness ==
  /\ seq.lastTick = "animate"
  /\ seq.lastElapsed = R[39, 10]
  /\ ~seq.candle.visible

\* C8: after priming, a visible candle implies the table is at TABLE_END_Z
\* and the cake at CAKE_END_Y.
C8_CandleAfterTable ==
  (seq.hasPrimedRef /\ seq.candle.visible) =>
    (seq.table.z = TABLE_END_Z /\ seq.cake.y = CAKE_END_Y)

C8_Witness ==
  /\ seq.hasPrimedRef
  /\ seq.candle.visible
  /\ ~seq.hasCompletedRef
  /\ seq.lastTick = "animate"
  /\ seq.candle.y # CANDLE_END_Y

\* C9: the prime snap is applied exactly once, by the first tick that finds
\* all three handles, whatever playing is; before it no pose has been
\* written, and no later tick applies it again.
C9_PrimeOnce ==
  /\ seq.primeCount = (IF seq.hasPrimedRef THEN 1 ELSE 0)
  /\ seq.hasPrimedRef <=> (seq.lastTick # "none")
  /\ ~seq.hasPrimedRef =>
       (seq.cake = InitSeq.cake /\ seq.table = InitSeq.table
          /\ seq.candle = InitSeq.candle)
  /\ seq.lastTick # "none" => handles = Handles

C9_Witness ==
  /\ seq.primeCount = 1
  /\ seq.lastTick = "notPlaying"
  /\ seq.candle.visible
  /\ seq.cake.y = CAKE_END_Y

\* C10: on a playing tick before completion the cake's Y is
\* start + (end - start) * (1 - (1 - t)^3) with t = min(max(elapsed / 3, 0), 1)
\* and its Y rotation is that eased value in turns; at elapsed 1.5 s the Y is
\* 1.25; from one such tick to the next in the same run the Y does not grow.
CubeOf(x) == Mul[x, Mul[x, x]]

CakeEaseAt(elapsed) ==
  LET t == MathMin[Num(1), MathMax[Num(0), Div[elapsed, CAKE_DESCENT_DURATION]]]
  IN  Sub[Num(1), CubeOf(Sub[Num(1), t])]

C10_CakeDescent ==
  /\ [](/\ (seq.lastTick = "animate" /\ ~seq.hasCompletedRef) =>
             /\ seq.cake.y =
                  Add[CAKE_START_Y,
                      Mul[Sub[CAKE_END_Y, CAKE_START_Y],
                          CakeEaseAt(seq.lastElapsed)]]
             /\ seq.cake.ry = CakeEaseAt(seq.lastElapsed)
        /\ (seq.lastTick = "animate" /\ seq.lastElapsed = R[3, 2]) =>
             seq.cake.y = R[5, 4])
  /\ [][(/\ seq.lastTick = "animate" /\ seq'.lastTick = "animate"
         /\ seq'.animationStartRef = seq.animationStartRef) =>
          Leq[seq'.cake.y, seq.cake.y]]_vars

C10_Witness ==
  /\ seq.lastTick = "animate"
  /\ seq.lastElapsed = R[3, 2]
  /\ seq.cake.y = R[5, 4]
  /\ seq.cake.ry = R[7, 8]

\* C15: every value delivered to either listener lies in [0, 1] and is the
\* cached value; a step that changes a delivered value changes it by more
\* than the emission epsilon, otherwise cache and listener stay as they are.
InUnit(v) == Leq[Num(0), v] /\ Leq[v, Num(1)]

C15_GatedEmission ==
  /\ [](/\ InUnit(seq.backgroundOpacity)
        /\ InUnit(seq.environmentProgress)
        /\ seq.backgroundOpacityRef = seq.backgroundOpacity
        /\ seq.environmentProgressRef = seq.environmentProgress)
  /\ [][/\ (seq'.backgroundOpacity # seq.backgroundOpacity =>
              Less[EmitEpsilon,
                   MathAbs[Sub[seq'.backgroundOpacity, seq.backgroundOpacity]]])
         /\ (seq'.environmentProgress # seq.environmentProgress =>
              Less[EmitEpsilon,
                   MathAbs[Sub[seq'.environmentProgress,
                               seq.environmentProgress]]])]_vars

\* the fade has reached 0 at elapsed 4.0 s, and the listener keeps the
\* 0.001 delivered at 3.9 s
C15_Witness ==
  /\ seq.lastTick = "animate"
  /\ seq.lastElapsed = Num(4)
  /\ seq.backgroundOpacity = R[1, 1000]
  /\ ~seq.hasCompletedRef

\* C17: a tick on which a handle is absent changes nothing of the sequencer
\* (primed, start time, completed, completionNotified, cached signals,
\* callbacks), so while a handle is absent the sequencer is as constructed.
C17_MissingHandleNoOp ==
  /\ [](handles # Handles => seq = InitSeq)
  /\ [][(handles # Handles /\ handles' = handles) => seq' = seq]_vars

C17_Witness ==
  /\ handles # Handles
  /\ handles # {}
  /\ playing
  /\ now > 0
  /\ seq = InitSeq

\* C21: on a playing tick before completion the values computed for the
\* fade, before the emission gate, are opacity 1 and progress 0 while
\* elapsed < BACKGROUND_FADE_START, and from then on
\* opacity = (1 - t)^3 with
\* t = min(max((elapsed - BACKGROUND_FADE_START) / BACKGROUND_FADE_DURATION,
\* 0), 1) and progress = 1 - opacity; the opacity is 0 from
\* BACKGROUND_FADE_END on; BACKGROUND_FADE_START is
\* max(max(CANDLE_DROP_START - BACKGROUND_FADE_OFFSET,
\* BACKGROUND_FADE_DURATION) - BACKGROUND_FADE_DURATION, 0) and
\* BACKGROUND_FADE_END is not after CANDLE_DROP_START.
FadeOpacityAt(elapsed) ==
  LET t == MathMin[Num(1),
                   MathMax[Num(0), Div[Sub[elapsed, BACKGROUND_FADE_START],
                                       BACKGROUND_FADE_DURATION]]]
  IN  CubeOf(Sub[Num(1), t])

C21_FadeComputed ==
  /\ (seq.lastTick = "animate" /\ ~seq.hasCompletedRef) =>
       /\ (Less[seq.lastElapsed, BACKGROUND_FADE_START] =>
             (seq.computedOpacity = Num(1) /\ seq.computedProgress = Num(0)))
       /\ (Leq[BACKGROUND_FADE_START, seq.lastElapsed] =>
             /\ seq.computedOpacity = FadeOpacityAt(seq.lastElapsed)
             /\ seq.computedProgress =
                  Sub[Num(1), FadeOpacityAt(seq.lastElapsed)])
       /\ (Leq[BACKGROUND_FADE_END, seq.lastElapsed] =>
             seq.computedOpacity = Num(0))
  /\ BACKGROUND_FADE_START =
       MathMax[Sub[MathMax[Sub[CANDLE_DROP_START, BACKGROUND_FADE_OFFSET],
                           BACKGROUND_FADE_DURATION],
                   BACKGROUND_FADE_DURATION], Num(0)]
  /\ BACKGROUND_FADE_START = Num(3)
  /\ Leq[BACKGROUND_FADE_END, CANDLE_DROP_START]

C21_Witness ==
  /\ seq.lastTick = "animate"
  /\ seq.lastElapsed = R[35, 10]
  /\ seq.computedOpacity = R[1, 8]
  /\ seq.computedProgress = R[7, 8]

\* a step of one play session: the frame callback ran with the start time
\* the session was armed with
SameSession ==
  /\ seq.animationStartRef # Null
  /\ seq'.animationStartRef = seq.animationStartRef
  /\ seq'.lastTick \in {"animate", "completed"}

\* C23: within one play session, from the tick that arms it through
\* completion and after, the clock never going back, each background
\* opacity delivered to the listener is at most the one before and each
\* environment progress delivered is at least the one before.
C23_DeliveredMonotone ==
  [][SameSession =>
       /\ Leq[seq'.backgroundOpacity, seq.backgroundOpacity]
       /\ Leq[seq.environmentProgress, seq'.environmentProgress]]_vars

C23_Witness ==
  /\ seq.lastTick = "animate"
  /\ ~seq.hasCompletedRef
  /\ seq.lastElapsed = R[35, 10]
  /\ seq.backgroundOpacity = R[1, 8]
  /\ seq.environmentProgress = R[7, 8]

\* C20: on a playing tick before completion the table's Z is TABLE_START_Z
\* while elapsed < TABLE_SLIDE_START, otherwise
\* start + (end - start) * (1 - (1 - t)^3) with
\* t = min(max((elapsed - TABLE_SLIDE_START) / TABLE_SLIDE_DURATION, 0), 1),
\* which is TABLE_END_Z from the end of the slide on; the slide ends
\* strictly before CANDLE_DROP_START.
TableSlideEnd == Add[TABLE_SLIDE_START, TABLE_SLIDE_DURATION]

TableEaseAt(elapsed) ==
  LET t == MathMin[Num(1),
                   MathMax[Num(0), Div[Sub[elapsed, TABLE_SLIDE_START],
                                       TABLE_SLIDE_DURATION]]]
  IN  Sub[Num(1), CubeOf(Sub[Num(1), t])]

C20_TableSlide ==
  /\ (seq.lastTick = "animate" /\ ~seq.hasCompletedRef) =>
       /\ (Less[seq.lastElapsed, TABLE_SLIDE_START] =>
             seq.table.z = TABLE_START_Z)
       /\ (Leq[TABLE_SLIDE_START, seq.lastElapsed] =>
             seq.table.z =
               Add[TABLE_START_Z,
                   Mul[Sub[TABLE_END_Z, TABLE_START_Z],
                       TableEaseAt(seq.lastElapsed)]])
       /\ (Leq[TableSlideEnd, seq.lastElapsed] => seq.table.z = TABLE_END_Z)
  /\ Less[TableSlideEnd, CANDLE_DROP_START]
  /\ TableSlideEnd = R[29, 10]

C20_Witness ==
  /\ seq.lastTick = "animate"
  /\ seq.lastElapsed = R[25, 10]
  /\ seq.table.z = R[1920, 343]

(***************************************************************************)
(* Properties of the focus toggle (checked under SpecFocus).               *)
(***************************************************************************)
LastTwo == SubSeq(toggleLog, Len(toggleLog) - 1, Len(toggleLog))

ActiveProps == {id \in ItemIds : isActive(activeItemId, id)}

ThenOther ==
  (Len(toggleLog) >= 2 /\ LastTwo[1].id # LastTwo[2].id) =>
    /\ activeItemId = LastTwo[2].id
    /\ ActiveProps = {LastTwo[2].id}

\* C3 as stated: toggling x twice in a row ends with no focus when it started
\* from no focus or from x; toggling x then y ends with only y active.
C3_TwiceClears ==
  /\ (/\ Len(toggleLog) >= 2
      /\ LastTwo[1].id = LastTwo[2].id
      /\ LastTwo[1].before \in {null, LastTwo[1].id}) =>
       activeItemId = null
  /\ ThenOther

\* C3 amended: toggling x twice in a row ends with no focus when it started
\* from no focus or from another prop, and with x focused again when it
\* started from x; toggling x then y ends with only y active; at most one
\* prop is active.
C3_ToggleTwice ==
  /\ (Len(toggleLog) >= 2 /\ LastTwo[1].id = LastTwo[2].id) =>
       activeItemId =
         (IF LastTwo[1].before = LastTwo[1].id THEN LastTwo[1].id ELSE null)
  /\ ThenOther
  /\ Cardinality(ActiveProps) <= 1

C3_Witness ==
  /\ Len(toggleLog) >= 2
  /\ LastTwo[1].id = LastTwo[2].id
  /\ LastTwo[1].before = LastTwo[1].id
  /\ activeItemId = LastTwo[1].id

\* the props and hover state of the PictureFrame with id f
FrameOf(f) ==
  [InitFrame(f, TRUE) EXCEPT !.isActive = isActive(activeItemId, f),
                             !.isHovered = isHovered[f]]

\* C22: over every sequence of pointer and click events on the props, a
\* pointerEnter on a frame leaves it hovered exactly when it was hovered
\* already or is not the focus target; a frame becomes hovered only in a step
\* that leaves the focus alone and finds the frame not the focus target,
\* whatever else is focused; a pointerLeave leaves the frame not hovered; and
\* a step that takes the focus away from a frame (a click on it or on another
\* prop) leaves it not active and not hovered, with the default position,
\* without the hover lift, as its target.
C22_HoverAndFocus ==
  [][\A f \in PICTURE_FRAMES :
       /\ (handlePointerOver(f) =>
             (isHovered'[f] <=> (isHovered[f] \/ ~isActive(activeItemId, f))))
       /\ ((~isHovered[f] /\ isHovered'[f]) =>
             (~isActive(activeItemId, f) /\ activeItemId' = activeItemId))
       /\ (handlePointerOut(f) => ~isHovered'[f])
       /\ ((isActive(activeItemId, f) /\ ~isActive(activeItemId', f)) =>
             /\ ~isHovered'[f]
             /\ ~FrameOf(f)'.isActive
             /\ \A cameraY \in CameraTargetYs :
                  PictureFrameTarget(FrameOf(f)', cameraY) = DefaultY)]_vars

C22_Witness ==
  /\ Len(toggleLog) = 2
  /\ toggleLog[1] = [id |-> "frame1", before |-> null]
  /\ toggleLog[2] = [id |-> "frame2", before |-> "frame1"]
  /\ activeItemId = "frame2"
  /\ ~isHovered["frame1"]
  /\ isHovered["frame3"]
  /\ PictureFrameTarget(FrameOf("frame1"), R[8, 5]) = DefaultY
  /\ PictureFrameTarget(FrameOf("frame3"), R[8, 5]) = Add[DefaultY, HOVER_LIFT]

(***************************************************************************)
(* Properties of App (checked under SpecApp).                              *)
(***************************************************************************)
\* C11: hasAnimationCompleted never goes from true back to false, over every
\* sequence of activations, timer firings, clicks and ticks; it is false
\* until the completion callback has been invoked.
C11_LatchMonotonic ==
  /\ [](seq.hasAnimationCompleted <=> seq.completeCalls > 0)
  /\ [][seq.hasAnimationCompleted => seq'.hasAnimationCompleted]_vars

C11_Witness ==
  /\ seq.hasAnimationCompleted
  /\ seq.lastTick = "completed"
  /\ app.isCandleLit
  /\ app.lastInput = "cakeClick"

\* C12: candle not lit implies hasAnimationCompleted, and no step taken from
\* a state where the entrance has not completed changes isCandleLit or
\* fireworksActive.
C12_ExtinguishAfterComplete ==
  /\ [](~app.isCandleLit => seq.hasAnimationCompleted)
  /\ [][~seq.hasAnimationCompleted =>
          /\ app'.isCandleLit = app.isCandleLit
          /\ app'.fireworksActive = app.fireworksActive]_vars

C12_Witness ==
  /\ ~app.isCandleLit
  /\ seq.hasAnimationCompleted
  /\ app.lastInput = "click"

FirstActivation ==
  /\ [](app.playCalls = (IF app.hasStarted THEN 1 ELSE 0))
  /\ [][app.hasStarted => app'.hasStarted]_vars

\* C13 as stated: the first activation sets hasStarted and starts the audio;
\* after completion an activation extinguishes a lit candle and relights an
\* extinguished one.
C13_ActivationToggles ==
  /\ FirstActivation
  /\ [][(/\ seq.hasAnimationCompleted
         /\ app' # app
         /\ app'.lastInput \in {"keydown", "click"}) =>
          app'.isCandleLit = ~app.isCandleLit]_vars

\* C13 amended: the first activation sets hasStarted and starts the audio;
\* after completion an activation extinguishes a lit candle (and turns the
\* fireworks on) and leaves an extinguished candle as it is; the candle is
\* relit only by a click on the cake.
C13_ActivationExtinguishes ==
  /\ FirstActivation
  /\ [][(/\ seq.hasAnimationCompleted
         /\ app' # app
         /\ app'.lastInput \in {"keydown", "click"}) =>
          (~app'.isCandleLit /\ app'.fireworksActive)]_vars
  /\ [][(~app.isCandleLit /\ app'.isCandleLit) =>
          app'.lastInput = "cakeClick"]_vars

C13_Witness ==
  /\ seq.hasAnimationCompleted
  /\ ~app.isCandleLit
  /\ app.fireworksActive
  /\ app.lastInput = "keydown"
  /\ app.playCalls = 1

\* C14: fireworksActive is true exactly when the candle is not lit.
C14_FireworksIffExtinguished == app.fireworksActive <=> ~app.isCandleLit

C14_Witness ==
  /\ app.fireworksActive
  /\ ~app.isCandleLit
  /\ seq.lastTick = "completed"

\* C19: isPlaying implies hasStarted and typingComplete, and isPlaying
\* becomes true only on a step taken with typing complete that sets
\* sceneStarted (the post-typing timer).
C19_PlayingAfterTyping ==
  /\ [](/\ playing = isScenePlaying(app)
        /\ playing => (app.hasStarted /\ typingComplete(app)))
  /\ [][(~playing /\ playing') =>
          /\ app.hasStarted
          /\ typingComplete(app)
          /\ ~app.sceneStarted /\ app'.sceneStarted]_vars

C19_Witness ==
  /\ playing
  /\ app.currentLineIndex = Len(TYPED_LINES)
  /\ seq.lastTick = "animate"

FrameCallbackStep == now' # now \/ seq' # seq

\* C18 as stated: a step that runs the sequencer's frame callback changes
\* none of playing, the focus target, the rest of App's state, the
\* entrance-complete latch and the two surfaced signals.
C18_TickLeavesOrchestratorState ==
  [][FrameCallbackStep =>
       /\ playing' = playing
       /\ activeItemId' = activeItemId
       /\ app' = app
       /\ seq'.hasAnimationCompleted = seq.hasAnimationCompleted
       /\ seq'.backgroundOpacity = seq.backgroundOpacity
       /\ seq'.environmentProgress = seq.environmentProgress]_vars

\* C18 amended: a step that runs the sequencer's frame callback changes
\* neither playing nor the focus target nor the rest of App's state other
\* than the latch and the two signals, and those three change on no other
\* step.
C18_TickLeavesPlayingAndFocus ==
  /\ [][FrameCallbackStep =>
          /\ playing' = playing
          /\ activeItemId' = activeItemId
          /\ app' = app]_vars
  /\ [][(\/ seq'.hasAnimationCompleted # seq.hasAnimationCompleted
         \/ seq'.backgroundOpacity # seq.backgroundOpacity
         \/ seq'.environmentProgress # seq.environmentProgress) =>
          (app' = app /\ handles = Handles /\ seq'.lastTick # "none")]_vars

C18_Witness ==
  /\ seq.lastTick = "animate"
  /\ seq.hasAnimationCompleted
  /\ seq.completeCalls = 1
  /\ seq.backgroundOpacity = Num(0)
  /\ app.sceneStarted
  /\ app.isCandleLit

(***************************************************************************)
(* App with its props: the steps of App and the focus toggles that the     *)
(* clicks on one picture frame and on the card make.                       *)
(***************************************************************************)
ToggledItems == {"frame1", "confetti"}

NextComposed ==
  \/ ResetEffect
  \/ TypingTimeout
  \/ SceneTimeout
  \/ \E code \in KeyCodes : handleKeyDown(code)
  \/ handleTouchOrClick
  \/ handleCakeClick
  \/ \E id \in ToggledItems : ToggleItem(id)
  \/ \E h \in Handles : Mount(h)
  \/ \E dt \in 0..MaxStep : ClockTick(dt)

SpecComposed == Init /\ [][NextComposed]_vars

(***************************************************************************)
(* Properties of the entrance as scheduled (checked under SpecEntrance).   *)
(***************************************************************************)
EntranceComplete ==
  /\ typingComplete(app)
  /\ app.sceneStarted
  /\ seq.hasCompletedRef
  /\ seq.completeCalls >= 1
  /\ seq.hasAnimationCompleted

\* C24: once the page has been activated, with the timers firing, the
\* handles attached and the frame callback running on an advancing clock,
\* the entrance eventually is complete: the typed intro has gone through
\* every line, one line at a time, and ended, sceneStarted has become true,
\* the sequencer has completed and App has been notified.
C24_EntranceCompletes ==
  /\ app.hasStarted ~> EntranceComplete
  /\ [][app'.currentLineIndex \in
          {app.currentLineIndex, app.currentLineIndex + 1}]_vars

C24_Witness ==
  /\ app.hasStarted
  /\ EntranceComplete
  /\ app.currentLineIndex = Len(TYPED_LINES)
  /\ seq.lastTick = "animate"
  /\ seq.completeCalls = 1

(***************************************************************************)
(* Properties of App with its props (checked under SpecComposed).          *)
(***************************************************************************)
\* C25: isPlaying is hasStarted and sceneStarted, and once true it stays
\* true over every activation, click, focus toggle, timer firing and tick;
\* so once the sequencer has armed the animation its start time is never
\* cleared or set again and no run of the frame callback takes the
\* not-playing branch.
C25_PlayingMonotonic ==
  /\ [](playing = (app.hasStarted /\ app.sceneStarted))
  /\ [][playing => playing']_vars
  /\ [][seq.animationStartRef # Null =>
          /\ playing /\ playing'
          /\ seq'.animationStartRef = seq.animationStartRef
          /\ seq'.lastTick \in {"animate", "completed"}]_vars

C25_Witness ==
  /\ playing
  /\ seq.animationStartRef # Null
  /\ seq.lastTick = "completed"
  /\ ~app.isCandleLit
  /\ app.lastInput = "keydown"
  /\ Len(toggleLog) = 2
  /\ activeItemId = "frame1"

(***************************************************************************)
(* Properties of one PictureFrame (checked under SpecPictureFrame).        *)
(***************************************************************************)
\* C16: a frame constructed without an id or without onToggle is inert: no
\* pointer event changes isHovered or the focus target, no run of its frame
\* callback changes its pose, and it never requests the pointer cursor.
C16_InertFrame ==
  /\ [](~isInteractive(frame) =>
          /\ ~frame.isHovered
          /\ frame.y = DefaultY
          /\ ~useCursor(frame))
  /\ [][~isInteractive(frame) =>
          /\ frame'.isHovered = frame.isHovered
          /\ frame'.y = frame.y
          /\ activeItemId' = activeItemId]_vars

C16_Witness ==
  /\ frame.id = "frame1"
  /\ ~frame.onToggle
  /\ frame.isActive
  /\ frame.ticks = MaxFrameTicks
  /\ frame.lastEvent = "click"

=============================================================================
